---- MODULE Spec2Model ----
(***************************************************************************)
(* Node health filtering of the portal API: the chain filter               *)
(* (PocketChainChecker.check, built on NodeCheckerWrapper) running against *)
(* the shared Redis cache/lock store.                                      *)
(*                                                                         *)
(* A node is named by its publicKey, a number in Nodes; the rest of a node  *)
(* is its service URL.  One session and one blockchain are modelled, so     *)
(* there is one chain-check result key and one lock key.  Every await of    *)
(* the code is one step of a call.                                          *)
(***************************************************************************)
EXTENDS Integers, Sequences, FiniteSets, TLC

\* ------------------------------------------------------------------ bounds
MaxNodes == 2

\* ------------------------------------------------------- program constants
ChainTTL == 600
ChainEmptyTTL == 30
LockTTL == 60
SyncTTL == 300
SyncLockTTL == 10

Nodes == 1..MaxNodes
CallIds == {1, 2}
\* what redis.get returns for a missing key (null)
Nil == <<"(nil)">>
MAX_RELAYS_ERROR == "the evidence is sealed, either max relays reached or claim already submitted"
OtherError == "other error"

\* ------------------------------------------------------------ pure helpers
Range(s) == {s[i] : i \in DOMAIN s}

IsInjective(s) == \A i, j \in DOMAIN s : s[i] = s[j] => i = j

\* every list of distinct session nodes (the empty list included)
NodeLists == {s \in UNION {[1..n -> Nodes] : n \in 0..MaxNodes} : IsInjective(s)}

\* a is a sub-list of b: a is b with some positions deleted
RECURSIVE IsSubList(_, _)
IsSubList(a, b) ==
  IF a = <<>> THEN TRUE
  ELSE IF b = <<>> THEN FALSE
  ELSE IF Head(a) = Head(b) THEN IsSubList(Tail(a), Tail(b))
  ELSE IsSubList(a, Tail(b))

\* JSON.stringify of an array of public keys, as a sequence of tokens
RECURSIVE JSONItems(_)
JSONItems(list) ==
  IF list = <<>> THEN <<>>
  ELSE IF Len(list) = 1 THEN <<list[1]>>
  ELSE <<list[1], ",">> \o JSONItems(Tail(list))

\* node.publicKey: the string naming node n
publicKey(n) == ToString(n)

\* checkedNodes.map(({ publicKey }) => publicKey)
PublicKeys(list) == [i \in DOMAIN list |-> publicKey(list[i])]

JSONstringify(list) == <<"[">> \o JSONItems(list) \o <<"]">>

\* JSON.parse of such a string
JSONparse(str) == SelectSeq(SubSeq(str, 2, Len(str) - 1), LAMBDA t : t # ",")

\* JavaScript truthiness of what redis.get returned (null or a string)
Truthy(v) == v # Nil /\ v # <<>>

\* checkedNodesList.includes(publicKey)
Includes(list, pk) == \E i \in DOMAIN list : list[i] = pk

\* ------------------------------------------------------------- store keys
\* A key is a string, written as the sequence of its parts.
\* hashBlockchainNodes(blockchainID, sessionNodes) of the one session modelled
SessionHash == "h0027"
checkedNodesKey == <<"chain-check-", SessionHash>>
LockKeyOf(cacheKey) == <<"lock-">> \o cacheKey
sessionKey == "k1"
SessionCacheKey == <<"session-", sessionKey>>
ChainKeys == {checkedNodesKey, LockKeyOf(checkedNodesKey), SessionCacheKey}

\* a.publicKey > b.publicKey (the keys modelled are one character long)
PkGreater(a, b) == a > b

\* nodes.sort((a, b) => a.publicKey > b.publicKey ? 1 : b.publicKey > a.publicKey ? -1 : 0)
RECURSIVE SortByPublicKey(_)
SortByPublicKey(nodes) ==
  IF nodes = <<>> THEN <<>>
  ELSE LET least == CHOOSE i \in DOMAIN nodes :
                      \A j \in DOMAIN nodes : ~PkGreater(nodes[i], nodes[j])
       IN <<nodes[least]>> \o
          SortByPublicKey(SubSeq(nodes, 1, least - 1) \o SubSeq(nodes, least + 1, Len(nodes)))

\* node.serviceURL, the rest of a node {publicKey, serviceURL}: an operator
\* serves two nodes from one URL (nodes 1 and 2
\* from the first URL, nodes 3 and 4 from the second, ...)
serviceURL(n) == "https://operator" \o ToString((n + 1) \div 2) \o ".example"

\* JSON.stringify(node, (k, v) => k != 'publicKey' ? v : undefined): what is
\* left of a node without its publicKey
WithoutPublicKey(n) == "node@" \o serviceURL(n)

\* blockchain + '-' + sha256(JSON.stringify(sorted nodes, without publicKey)):
\* the digest is written as the text it is the digest of
blockchain == "0027"
SyncedNodesKeyOf(sorted) == <<blockchain, "-">> \o [i \in DOMAIN sorted |-> WithoutPublicKey(sorted[i])]

SyncKeys(sorted) == {SyncedNodesKeyOf(sorted), LockKeyOf(SyncedNodesKeyOf(sorted))}

NoExpiry == 0 - 1
Payloads == {"payloadA"}
Unread == <<"(unread)">>

\* ------------------------------------------------------------ probe outcomes
\* A settled probe: fulfilled with success true ("pass"), fulfilled with
\* success false ("wrong"), fulfilled with an Error response ("errOther",
\* "errMax": its message is MAX_RELAYS_ERROR), or rejected ("rejOther",
\* "rejMax": its reason is the string MAX_RELAYS_ERROR).
Outcomes == {"pass", "wrong", "errOther", "errMax", "rejOther", "rejMax"}

\* nodeCheckPromise.status === 'rejected'
Rejected(o) == o \in {"rejOther", "rejMax"}
\* rejected || nodeCheckPromise.value.response instanceof Error
Failed(o) == Rejected(o) \/ o \in {"errOther", "errMax"}
\* errorMsg: the reason of a rejection, the message of an Error response
ErrorMsg(o) == IF o \in {"errMax", "rejMax"} THEN MAX_RELAYS_ERROR ELSE OtherError
\* value.success
Success(o) == o = "pass"
\* (mutation) every failure counts as max relays exceeded
IsAnyFailure(o) == Failed(o)

\* errorMsg === MAX_RELAYS_ERROR
IsMaxRelays(o) == Failed(o) /\ ErrorMsg(o) = MAX_RELAYS_ERROR

\* ------------------------------------------------------------------- state
VARIABLES
  filter,   \* what the callers of this run call: the chain filter, one call
            \* after another ("chain"); the chain filter for the nodes of one
            \* session, two calls at a time ("race"); or the sync filter for
            \* one set of nodes, two calls at a time ("sync").  The chain
            \* filter and the sync filter of each node set read and write keys
            \* of their own.
  redis,    \* the store: key -> string (token sequence) or Nil, for the keys
            \* the calls of this run can read or write
  ttl,      \* key -> seconds left before the key expires (NoExpiry: none set)
  call,     \* call id -> the state of that caller's current check() call
  flagged,  \* history: nodes whose probe has failed with MAX_RELAYS_ERROR
  unfit,    \* history: nodes that failed in the last completed round that
            \* probed them, and that no round has probed since
  prev,     \* history: <<the call that has just returned from a probing round>>;
            \* <<>> once time has passed or another call has started
  lib       \* the ClickHouseLib object: its fields, the arrays its map and its
            \* requests refer to, its queue, and the requests made so far

vars == <<filter, redis, ttl, call, flagged, unfit, prev, lib>>

IdleCall ==
  [pc |-> "idle", given |-> <<>>, nodes |-> <<>>, data |-> "payloadA", checkedNodes |-> <<>>,
   results |-> <<>>, ret |-> <<>>, cached |-> Unread, lock |-> Unread,
   probed |-> <<>>, sets |-> <<>>, challenges |-> <<>>, removals |-> <<>>,
   round |-> FALSE, metrics |-> <<>>, logs |-> <<>>, since |-> <<>>, thrownAt |-> "",
   avoid |-> {}]

\* ------------------------------------------------------------ ClickHouseLib
\* the insert statements the gateway passes to insert(query, data)
Queries == {"INSERT INTO relay", "INSERT INTO error"}
\* batchSize (4000 by default), scaled down
BatchSize == 2
\* the values of the constructor's `concurrency` (1 by default)
MaxConcurrency == 2
Concurrencies == 1..MaxConcurrency
\* the insert() calls and the ticks of the flush interval of one run
MaxItems == 3
MaxFlushes == 1

\* new ClickHouseLib(credentials, batchSize, concurrency).  `arrays` is the
\* heap of item arrays: the map and the jobs hold references (indices) into
\* it.  `queue` holds the jobs PQueue has not started; `requests` holds every
\* request started, in flight or settled, with the body it was sent with.
\* `inserts[i]` is the query of the i-th insert() call, whose item is i.
NewClickHouseLib(batchSize, concurrency) ==
  [batchSize |-> batchSize, concurrency |-> concurrency,
   itemsMap |-> <<>>, arrays |-> <<>>, queue |-> <<>>, requests |-> <<>>,
   inserts |-> <<>>, flushes |-> 0]

RequestsInFlight(l) == {r \in DOMAIN l.requests : l.requests[r].state = "flight"}

\* PQueue starts the first waiting job when fewer than `concurrency` jobs run:
\* the job calls clickHouse.insert(query, items).toPromise(), which sends the
\* items the array holds at that moment
TryToStartAnother(l) ==
  IF l.queue # <<>> /\ Cardinality(RequestsInFlight(l)) < l.concurrency
  THEN LET job == Head(l.queue)
       IN [l EXCEPT !.queue = Tail(@),
                    !.requests = Append(@, [query |-> job.query, items |-> job.items,
                                            force |-> job.force, length |-> job.length,
                                            body |-> l.arrays[job.items],
                                            state |-> "flight"])]
  ELSE l

\* this.queue.add(() => this.clickHouse.insert(query, items).toPromise())
\* (history: `force` is the argument of the bulkInsert that adds the job and
\* `length` the items.length it has seen)
QueueAdd(l, query, items, force) ==
  TryToStartAnother([l EXCEPT !.queue = Append(@, [query |-> query, items |-> items,
                                                   force |-> force,
                                                   length |-> Len(l.arrays[items])])])

\* (mutation) bulkInsert sends every entry, whatever its length
SkipsNoEntry(l, force, items) == FALSE

\* if (!force && items.length < this.batchSize) return
SkipsEntry(l, force, items) == ~force /\ Len(l.arrays[items]) < l.batchSize

\* bulkInsert(force), up to the await of each callback: one queue.add for
\* every entry of the map that is forced or holds batchSize items or more
RECURSIVE BulkInsertFrom(_, _, _)
BulkInsertFrom(l, force, i) ==
  IF i > Len(l.itemsMap) THEN l
  ELSE LET entry == l.itemsMap[i]
       IN IF SkipsEntry(l, force, entry.items)
          THEN BulkInsertFrom(l, force, i + 1)
          ELSE BulkInsertFrom(QueueAdd(l, entry.query, entry.items, force), force, i + 1)

bulkInsert(l, force) == BulkInsertFrom(l, force, 1)

\* this.itemsMap.get(query): the position of the entry, 0 when there is none
MapGet(l, query) ==
  IF \E i \in DOMAIN l.itemsMap : l.itemsMap[i].query = query
  THEN CHOOSE i \in DOMAIN l.itemsMap : l.itemsMap[i].query = query
  ELSE 0

\* this.itemsMap.delete(query)
MapDelete(l, query) ==
  [l EXCEPT !.itemsMap = SelectSeq(@, LAMBDA entry : entry.query # query)]

\* insert(query, data)
insert(l, query, data) ==
  LET i == MapGet(l, query)
      pushed == IF i = 0
                THEN [l EXCEPT !.arrays = Append(@, <<data>>),
                               !.itemsMap = Append(@, [query |-> query,
                                                       items |-> Len(l.arrays) + 1])]
                ELSE [l EXCEPT !.arrays[l.itemsMap[i].items] = Append(@, data)]
  IN bulkInsert(pushed, FALSE)

\* A caller passes a new item to insert().
Insert ==
  /\ filter.kind = "clickhouse"
  /\ Len(lib.inserts) < MaxItems
  /\ \E query \in Queries :
       lib' = insert([lib EXCEPT !.inserts = Append(@, query)], query, Len(lib.inserts) + 1)
  /\ UNCHANGED <<filter, redis, ttl, call, flagged, unfit, prev>>

\* The interval of the constructor fires: bulkInsert(true).
ForcedFlush ==
  /\ filter.kind = "clickhouse"
  /\ lib.flushes < MaxFlushes
  /\ lib' = bulkInsert([lib EXCEPT !.flushes = @ + 1], TRUE)
  /\ UNCHANGED <<filter, redis, ttl, call, flagged, unfit, prev>>

\* A request in flight succeeds: PQueue starts the next waiting job, and the
\* callback that awaited the request goes on to this.itemsMap.delete(query).
InsertDone(r) ==
  /\ filter.kind = "clickhouse"
  /\ r \in RequestsInFlight(lib)
  /\ lib' = MapDelete(TryToStartAnother([lib EXCEPT !.requests[r].state = "done"]),
                      lib.requests[r].query)
  /\ UNCHANGED <<filter, redis, ttl, call, flagged, unfit, prev>>

\* A request in flight fails: PQueue starts the next waiting job, and the
\* callback that awaited the request rejects before its delete.
InsertFailed(r) ==
  /\ filter.kind = "clickhouse"
  /\ r \in RequestsInFlight(lib)
  /\ lib' = TryToStartAnother([lib EXCEPT !.requests[r].state = "failed"])
  /\ UNCHANGED <<filter, redis, ttl, call, flagged, unfit, prev>>

\* the requests one run can start
RequestIds == 1..(MaxItems * Cardinality(Queries) + MaxFlushes * Cardinality(Queries))

Keys == DOMAIN redis
KeysOf(f) == IF f.kind = "sync" THEN SyncKeys(f.nodes) ELSE ChainKeys

\* the node list of the session that two callers check side by side: a
\* session of one node
RaceLists == {<<1>>}

Init ==
  /\ filter \in {[kind |-> "chain", nodes |-> <<>>, callers |-> {1}]} \cup
                 {[kind |-> "clickhouse", nodes |-> <<>>, callers |-> {}]} \cup
                 {[kind |-> "race", nodes |-> l, callers |-> CallIds] : l \in RaceLists} \cup
                 {[kind |-> "sync", nodes |-> SortByPublicKey(l), callers |-> CallIds] :
                    l \in NodeLists}
  /\ redis = [k \in KeysOf(filter) |-> IF k = SessionCacheKey THEN JSONstringify(<<>>) ELSE Nil]
  /\ ttl = [k \in KeysOf(filter) |-> IF k = SessionCacheKey THEN NoExpiry ELSE 0]
  /\ call = [c \in CallIds |-> IdleCall]
  /\ flagged = {}
  /\ unfit = {}
  /\ prev = <<>>
  /\ lib \in {NewClickHouseLib(BatchSize, n) :
                n \in IF filter.kind = "clickhouse" THEN Concurrencies ELSE {1}}

\* (mutation) a write of a key also deletes the key's lock
RedisSetAndUnlock(store, key, value) ==
  [k \in DOMAIN store |-> IF k = key THEN value
                          ELSE IF k = <<"lock-">> \o key THEN <<"(nil)">> ELSE store[k]]

\* redis.set(key, value, 'EX', seconds)
RedisSet(store, key, value) == [store EXCEPT ![key] = value]
\* (mutation) a write without 'EX': the key never expires
RedisPersist(t, key, seconds) == [t EXCEPT ![key] = NoExpiry]
RedisExpire(t, key, seconds) == [t EXCEPT ![key] = seconds]

Finished(c) == call[c].pc \in {"done", "raised"}

\* The caller has taken the result (or the exception) of its call: the call
\* and its locals are gone.
Discard(c) ==
  /\ Finished(c)
  /\ call' = [call EXCEPT ![c] = IdleCall]
  /\ UNCHANGED <<lib, filter, unfit, redis, ttl, flagged, prev>>

\* A caller invokes check(nodes, data, ...).
Start(c) ==
  /\ filter.kind \in {"chain", "race"}
  /\ c \in filter.callers
  /\ call[c].pc = "idle"
  /\ \E l \in NodeLists, d \in Payloads :
       /\ filter.kind = "race" => l = filter.nodes
       /\ call' = [call EXCEPT ![c] =
            [IdleCall EXCEPT !.pc = "cacheGet", !.given = l, !.nodes = l, !.data = d,
                             !.avoid = unfit,
                             !.since = IF prev # <<>> /\ prev[1].nodes = l
                                       THEN <<prev[1].ret>> ELSE <<>>]]
  /\ prev' = <<>>
  /\ UNCHANGED <<lib, filter, unfit, redis, ttl, flagged>>

\* The record of a call that has thrown: what it did stays on record, its
\* locals are gone
Thrown(rec) ==
  [IdleCall EXCEPT !.pc = "raised", !.given = rec.given, !.nodes = rec.nodes,
                   !.data = rec.data, !.cached = rec.cached, !.lock = rec.lock,
                   !.round = rec.round, !.probed = rec.probed, !.sets = rec.sets,
                   !.challenges = rec.challenges, !.removals = rec.removals,
                   !.metrics = rec.metrics, !.logs = rec.logs]

\* the awaits of a store operation, named by the step that makes them
StoreReads == {"cacheGet", "lockGet", "syncCacheGet", "syncLockGet"}
StoreWrites == {"lockSet", "removeNodeFromSession", "cacheSet", "syncLockSet", "syncCacheSet"}
StoreOps == StoreReads \cup StoreWrites

\* an await rejects and nothing catches it: the call rejects with that error
Rejects(rec, at) == [Thrown(rec) EXCEPT !.thrownAt = at]

\* (mutation) the store error is caught and the call fails open
StoreErrorSwallowed(rec, op) == [rec EXCEPT !.pc = "done", !.ret = rec.nodes, !.thrownAt = op]

\* await this.redis.get(...) / await this.redis.set(...) with no try/catch
OnStoreError(rec, op) == Rejects(rec, op)

\* The store operation a call is about to await fails (the store cannot be
\* reached): the operation has no effect and its error rejects the call.
StoreError(c) ==
  /\ call[c].pc \in StoreOps
  /\ call' = [call EXCEPT ![c] = OnStoreError(call[c], call[c].pc)]
  /\ UNCHANGED <<lib, filter, unfit, redis, ttl, flagged, prev>>

\* history: what is remembered of a call that returned after a probing round
PrevOf(rec) == IF rec.round THEN <<[nodes |-> rec.nodes, ret |-> rec.ret]>> ELSE <<>>

\* ------------------------------------------------- NodeCheckerWrapper.cacheNodes
\* (mutation) the cached keys' nodes, in the order of the cached list
CachedSubsetInCachedOrder(nodes, checkedNodesList) ==
  LET known == SelectSeq(checkedNodesList,
                         LAMBDA pk : \E n \in Range(nodes) : publicKey(n) = pk)
  IN [i \in DOMAIN known |-> CHOOSE n \in Range(nodes) : publicKey(n) = known[i]]

\* (mutation) a cache hit returns every input node
CachedAll(nodes, checkedNodesList) == nodes

\* the nodes whose publicKey is in the cached list, in the order of `nodes`
CachedSubset(nodes, checkedNodesList) ==
  SelectSeq(nodes, LAMBDA n : Includes(checkedNodesList, publicKey(n)))

\* (mutation) check() never returns the list of cacheNodes
ReturnsNever(checkedNodes) == FALSE

\* check(): if (checkedNodes.length > 0) return checkedNodes
ReturnsEarly(checkedNodes) == Len(checkedNodes) > 0

\* What check() does with the list cacheNodes returned: return it, or go on
\* to probe with it as the initial checkedNodes.
AfterCacheNodes(c, rec, checkedNodes) ==
  IF ReturnsEarly(checkedNodes)
  THEN /\ call' = [call EXCEPT ![c] = [rec EXCEPT !.pc = "done", !.ret = checkedNodes,
                                                  !.checkedNodes = checkedNodes]]
       /\ prev' = PrevOf([rec EXCEPT !.ret = checkedNodes])
  ELSE /\ call' = [call EXCEPT ![c] = [rec EXCEPT !.pc = "probe",
                                                  !.checkedNodes = checkedNodes]]
       /\ UNCHANGED prev

\* await this.redis.get(cacheKey), and the cache-hit branch
CacheGet(c) ==
  /\ call[c].pc = "cacheGet"
  /\ LET CheckedNodesCached == redis[checkedNodesKey]
         rec == [call[c] EXCEPT !.cached = CheckedNodesCached]
     IN IF Truthy(CheckedNodesCached)
        THEN AfterCacheNodes(c, rec, CachedSubset(rec.nodes, JSONparse(CheckedNodesCached)))
        ELSE /\ call' = [call EXCEPT ![c] = [rec EXCEPT !.pc = "lockGet"]]
             /\ UNCHANGED prev
  /\ UNCHANGED <<lib, filter, unfit, redis, ttl, flagged>>

\* (mutation) the lock-present branch returns the empty checkedNodes
LockedNodesNone(nodes) == <<>>

\* if (chainLock) return nodes
LockedNodes(nodes) == nodes

\* (mutation) a call that finds the lock waits until the lock is gone
LockGetWaits(c) ==
  /\ call[c].pc = "lockGet"
  /\ ~Truthy(redis[LockKeyOf(checkedNodesKey)])
  /\ call' = [call EXCEPT ![c] = [@ EXCEPT !.lock = redis[LockKeyOf(checkedNodesKey)],
                                           !.pc = "lockSet"]]
  /\ UNCHANGED <<lib, filter, unfit, redis, ttl, flagged, prev>>

\* await this.redis.get('lock-' + cacheKey), and the lock-present branch
LockGet(c) ==
  /\ call[c].pc = "lockGet"
  /\ LET chainLock == redis[LockKeyOf(checkedNodesKey)]
         rec == [call[c] EXCEPT !.lock = chainLock]
     IN IF Truthy(chainLock)
        THEN AfterCacheNodes(c, rec, LockedNodes(rec.nodes))
        ELSE /\ call' = [call EXCEPT ![c] = [rec EXCEPT !.pc = "lockSet"]]
             /\ UNCHANGED prev
  /\ UNCHANGED <<lib, filter, unfit, redis, ttl, flagged>>

\* await this.redis.set('lock-' + cacheKey, 'true', 'EX', 60); cacheNodes
\* returns the empty checkedNodes
LockSet(c) ==
  /\ call[c].pc = "lockSet"
  /\ redis' = RedisSet(redis, LockKeyOf(checkedNodesKey), <<"true">>)
  /\ ttl' = RedisExpire(ttl, LockKeyOf(checkedNodesKey), LockTTL)
  /\ call' = [call EXCEPT ![c] =
       [@ EXCEPT !.pc = "probe",
                 !.sets = Append(@, [key |-> LockKeyOf(checkedNodesKey),
                                     value |-> <<"true">>, ex |-> LockTTL])]]
  /\ UNCHANGED <<lib, filter, unfit, flagged, prev>>

\* ------------------------------------------------------ the probing round
\* removeNodeFromSession(redis, sessionKey, publicKey): the key is added to
\* the list kept under session-{sessionKey}, unless it is there already
RemoveNodeFromSession(store, key, pk) ==
  LET list == IF Truthy(store[SessionCacheKey]) THEN JSONparse(store[SessionCacheKey]) ELSE <<>>
  IN RedisSet(store, SessionCacheKey,
              JSONstringify(IF Includes(list, pk) THEN list ELSE Append(list, pk)))

\* (mutation) every node whose probe did not fail is kept
RetainedUnlessFailed(o) == ~Failed(o)

\* a node is kept when its probe did not fail and reports success
Retained(o) == ~Failed(o) /\ Success(o)

\* checkType.replace('-', ' ').toUpperCase()
formattedType == "CHAIN CHECK"

\* logger.log('error', `${formattedType} ERROR: ${JSON.stringify(error)}`, ...):
\* one call for a rejected probe and for an Error response alike; a log entry
\* is kept as its level, the fixed part of its message and its serviceNode
ErrorLog(node, o) ==
  <<[level |-> "error", message |-> formattedType \o " ERROR", serviceNode |-> node]>>

\* the two logger.log('info', ...) calls for a response that is no Error:
\* resultMsg, then successMsg
ResultLogs(node, o) ==
  <<[level |-> "info", message |-> "CHAIN CHECK RESULT", serviceNode |-> node],
    [level |-> "info",
     message |-> IF Success(o) THEN "CHAIN CHECK SUCCESS" ELSE "CHAIN CHECK FAILURE",
     serviceNode |-> node]>>

\* the loop of filterNodes from index idx on; acc collects the filtered
\* nodes, the removeNodeFromSession calls, the metrics recorded and the store;
\* acc.failAt says which removeNodeFromSession call (0: none) the store fails,
\* and the loop ends there, thrown
RECURSIVE FilterLoop(_, _, _, _)
FilterLoop(nodes, nodesPromise, idx, acc) ==
  IF idx > Len(nodesPromise) THEN acc
  ELSE LET node == nodes[idx]
           o == nodesPromise[idx]
       IN IF Failed(o) /\ IsMaxRelays(o) /\ Len(acc.removals) + 1 = acc.failAt
          THEN [acc EXCEPT !.thrown = TRUE, !.logs = @ \o ErrorLog(node, o)]
          ELSE IF Failed(o)
          THEN FilterLoop(nodes, nodesPromise, idx + 1,
                 [acc EXCEPT
                    !.store = IF IsMaxRelays(o)
                              THEN RemoveNodeFromSession(@, sessionKey, publicKey(node))
                              ELSE @,
                    !.removals = IF IsMaxRelays(o) THEN Append(@, node) ELSE @,
                    !.logs = @ \o ErrorLog(node, o),
                    !.metrics = Append(@, [serviceNode |-> node, result |-> 500,
                                           delivered |-> FALSE])])
          ELSE IF ~Retained(o)
          THEN FilterLoop(nodes, nodesPromise, idx + 1,
                 [acc EXCEPT !.logs = @ \o ResultLogs(node, o)])
          ELSE FilterLoop(nodes, nodesPromise, idx + 1,
                 [acc EXCEPT !.logs = @ \o ResultLogs(node, o),
                             !.filteredNodes = Append(@, node)])

\* Promise.allSettled(nodes.map((node) => nodeChecker.chain(node, ...))): one
\* probe per input node, each settling with some outcome; then
\* await this.filterNodes('chain-check', nodes, nodeChainChecks, ...) and
\* checkedNodes.push(...filtered.map(({ node }) => node))
ProbeRound(c) ==
  /\ call[c].pc = "probe"
  /\ \E outs \in [1..Len(call[c].nodes) -> Outcomes] :
     \E failAt \in 0..Cardinality({i \in DOMAIN outs : IsMaxRelays(outs[i])}) :
     \E out \in {FilterLoop(call[c].nodes, outs, 1,
                    [filteredNodes |-> <<>>, removals |-> <<>>, metrics |-> <<>>,
                     logs |-> <<>>, store |-> redis, failAt |-> failAt, thrown |-> FALSE])} :
       LET rec == [call[c] EXCEPT !.round = TRUE, !.avoid = {},
                                  !.probed = @ \o call[c].nodes,
                                  !.removals = @ \o out.removals,
                                  !.metrics = @ \o out.metrics,
                                  !.logs = @ \o out.logs]
       IN /\ redis' = out.store
          /\ flagged' = flagged \cup Range(out.removals)
          /\ unfit' = unfit \ Range(call[c].nodes)
          /\ call' = [call EXCEPT ![c] =
               IF out.thrown
               THEN OnStoreError(rec, "removeNodeFromSession")
               ELSE [rec EXCEPT !.pc = "cacheSet",
                                !.results = outs,
                                !.checkedNodes = @ \o out.filteredNodes]]
  /\ UNCHANGED <<lib, filter, ttl, prev>>

\* (mutation) the long expiry whatever the result
CacheSecondsLong(checkedNodes) == ChainTTL

\* checkedNodes.length > 0 ? 600 : 30
CacheSeconds(checkedNodes) == IF Len(checkedNodes) > 0 THEN ChainTTL ELSE ChainEmptyTTL

\* (mutation) no challenge when no node is left
ChallengeDueSomeLeft(checkedNodes, nodes) ==
  0 < Len(checkedNodes) /\ Len(checkedNodes) < Len(nodes)

\* if (checkedNodes.length < nodes.length): perform the challenge
ChallengeDue(checkedNodes, nodes) == Len(checkedNodes) < Len(nodes)

\* history: the nodes a round has classified as failing (probed and not kept)
Unfit(nodes, checkedNodes) == Range(nodes) \ Range(checkedNodes)

\* await this.redis.set(checkedNodesKey, JSON.stringify(checkedNodesList), 'EX', ...)
\* and then either the challenge or the return
CacheSet(c) ==
  /\ call[c].pc = "cacheSet"
  /\ LET checkedNodes == call[c].checkedNodes
         value == JSONstringify(PublicKeys(checkedNodes))
         rec == [call[c] EXCEPT
                   !.sets = Append(@, [key |-> checkedNodesKey, value |-> value,
                                       ex |-> CacheSeconds(checkedNodes)])]
     IN /\ redis' = RedisSet(redis, checkedNodesKey, value)
        /\ ttl' = RedisExpire(ttl, checkedNodesKey, CacheSeconds(checkedNodes))
        /\ IF ChallengeDue(checkedNodes, rec.nodes)
           THEN /\ call' = [call EXCEPT ![c] = [rec EXCEPT !.pc = "challenge"]]
                /\ UNCHANGED prev
           ELSE /\ call' = [call EXCEPT ![c] = [rec EXCEPT !.pc = "done", !.ret = checkedNodes]]
                /\ prev' = PrevOf([rec EXCEPT !.ret = checkedNodes])
  /\ unfit' = (unfit \ Range(call[c].nodes)) \cup Unfit(call[c].nodes, call[c].checkedNodes)
  /\ UNCHANGED <<lib, filter, flagged>>

\* what nodeChecker.sendConsensusRelay can do: resolve with a response,
\* resolve with an error value, or reject
ChallengeOutcomes == {"response", "error", "rejected"}

\* await this.performChallenge(data, ...): a rejection of the relay is not
\* caught, so it rejects check() as well
Challenge(c) ==
  /\ call[c].pc = "challenge"
  /\ \E outcome \in ChallengeOutcomes :
       LET rec == [call[c] EXCEPT !.challenges = Append(@, call[c].data)]
       IN IF outcome = "rejected"
          THEN /\ call' = [call EXCEPT ![c] = Rejects(rec, "performChallenge")]
               /\ prev' = <<>>
          ELSE /\ call' = [call EXCEPT ![c] = [rec EXCEPT !.pc = "done",
                                                          !.ret = rec.checkedNodes]]
               /\ prev' = PrevOf([rec EXCEPT !.ret = rec.checkedNodes])
  /\ UNCHANGED <<lib, filter, unfit, redis, ttl, flagged>>

\* ------------------------------------------------ SyncChecker.consensusFilter
\* A caller invokes consensusFilter(nodes, ...).
SyncStart(c) ==
  /\ filter.kind = "sync"
  /\ c \in filter.callers
  /\ call[c].pc = "idle"
  /\ \E l \in NodeLists :
       /\ SyncedNodesKeyOf(SortByPublicKey(l)) = SyncedNodesKeyOf(filter.nodes)
       /\ call' = [call EXCEPT ![c] =
            [IdleCall EXCEPT !.pc = "syncCacheGet", !.given = l, !.nodes = l]]
  /\ UNCHANGED <<lib, filter, unfit, redis, ttl, flagged, prev>>

\* the nodes whose publicKey is in the cached list (the loop of lines 25-29)
SyncedSubset(nodes, syncedNodesList) ==
  SelectSeq(nodes, LAMBDA n : Includes(syncedNodesList, publicKey(n)))

\* nodes.sort(...) in place, the key, await this.redis.get(syncedNodesKey),
\* and the cache-hit branch
SyncCacheGet(c) ==
  /\ call[c].pc = "syncCacheGet"
  /\ LET nodes == SortByPublicKey(call[c].nodes)
         syncedNodesCached == redis[SyncedNodesKeyOf(nodes)]
         rec == [call[c] EXCEPT !.nodes = nodes, !.cached = syncedNodesCached]
     IN IF Truthy(syncedNodesCached)
        THEN call' = [call EXCEPT ![c] =
               [rec EXCEPT !.pc = "done",
                           !.ret = SyncedSubset(nodes, JSONparse(syncedNodesCached))]]
        ELSE call' = [call EXCEPT ![c] = [rec EXCEPT !.pc = "syncLockGet"]]
  /\ UNCHANGED <<lib, filter, unfit, redis, ttl, flagged, prev>>

\* await this.redis.get('lock-' + syncedNodesKey), and the lock-present branch
SyncLockGet(c) ==
  /\ call[c].pc = "syncLockGet"
  /\ LET syncLock == redis[LockKeyOf(SyncedNodesKeyOf(call[c].nodes))]
         rec == [call[c] EXCEPT !.lock = syncLock]
     IN IF Truthy(syncLock)
        THEN call' = [call EXCEPT ![c] = [rec EXCEPT !.pc = "done", !.ret = rec.nodes]]
        ELSE call' = [call EXCEPT ![c] = [rec EXCEPT !.pc = "syncLockSet"]]
  /\ UNCHANGED <<lib, filter, unfit, redis, ttl, flagged, prev>>

\* await this.redis.set('lock-' + syncedNodesKey, 'true', 'EX', 10)
SyncLockSet(c) ==
  /\ call[c].pc = "syncLockSet"
  /\ LET key == LockKeyOf(SyncedNodesKeyOf(call[c].nodes))
     IN /\ redis' = RedisSet(redis, key, <<"true">>)
        /\ ttl' = RedisExpire(ttl, key, SyncLockTTL)
        /\ call' = [call EXCEPT ![c] =
             [@ EXCEPT !.pc = "syncCacheSet",
                       !.sets = Append(@, [key |-> key, value |-> <<"true">>,
                                           ex |-> SyncLockTTL])]]
  /\ UNCHANGED <<lib, filter, unfit, flagged, prev>>

\* (mutation) the loop takes no node as synced
SyncedNodesNone(nodes) == <<>>

\* for (const node of nodes) { syncedNodes.push(node); ... }: the relay and the
\* height comparison are commented out, every node is taken as synced
SyncedNodes(nodes) == nodes

\* the loop that takes every node as synced, then
\* await this.redis.set(syncedNodesKey, JSON.stringify(syncedNodesList), 'EX', 300)
SyncCacheSet(c) ==
  /\ call[c].pc = "syncCacheSet"
  /\ LET key == SyncedNodesKeyOf(call[c].nodes)
         syncedNodes == SyncedNodes(call[c].nodes)
         value == JSONstringify(PublicKeys(syncedNodes))
     IN /\ redis' = RedisSet(redis, key, value)
        /\ ttl' = RedisExpire(ttl, key, SyncTTL)
        /\ call' = [call EXCEPT ![c] =
             [@ EXCEPT !.pc = "done", !.ret = syncedNodes, !.checkedNodes = syncedNodes,
                       !.sets = Append(@, [key |-> key, value |-> value, ex |-> SyncTTL])]]
  /\ UNCHANGED <<lib, filter, unfit, flagged, prev>>

\* ---------------------------------------------------------------- the store
\* the seconds until the next key expires
NextExpiry == CHOOSE d \in {ttl[k] : k \in {x \in Keys : ttl[x] > 0}} :
                \A k \in Keys : ttl[k] > 0 => d <= ttl[k]

\* Time passes until the next expiry: every key with an expiry gets that much
\* closer to it, and a key whose time is up is gone.  Where one caller makes
\* one call after another, a call is short against the expiries and time
\* passes between calls; where callers run side by side it passes at any step.
Tick ==
  /\ \E k \in Keys : ttl[k] > 0
  /\ filter.kind = "chain" => \A c \in CallIds : call[c].pc = "idle"
  /\ ttl' = [k \in Keys |-> IF ttl[k] > 0 THEN ttl[k] - NextExpiry ELSE ttl[k]]
  /\ redis' = [k \in Keys |-> IF ttl[k] > 0 /\ ttl[k] = NextExpiry THEN Nil ELSE redis[k]]
  /\ prev' = <<>>
  /\ call' = [c \in CallIds |-> [call[c] EXCEPT !.since = <<>>]]
  /\ UNCHANGED <<lib, filter, unfit, flagged>>

Next ==
  \/ \E c \in CallIds : Discard(c)
  \/ \E c \in CallIds : StoreError(c)
  \/ \E c \in CallIds : Start(c)
  \/ \E c \in CallIds : CacheGet(c)
  \/ \E c \in CallIds : LockGet(c)
  \/ \E c \in CallIds : LockSet(c)
  \/ \E c \in CallIds : ProbeRound(c)
  \/ \E c \in CallIds : CacheSet(c)
  \/ \E c \in CallIds : Challenge(c)
  \/ \E c \in CallIds : SyncStart(c)
  \/ \E c \in CallIds : SyncCacheSet(c)
  \/ \E c \in CallIds : SyncLockSet(c)
  \/ \E c \in CallIds : SyncLockGet(c)
  \/ \E c \in CallIds : SyncCacheGet(c)
  \/ Tick
  \/ Insert
  \/ ForcedFlush
  \/ \E r \in RequestIds : InsertDone(r)
  \/ \E r \in RequestIds : InsertFailed(r)

Spec == Init /\ [][Next]_vars

\* the next await of call c settles and the call goes on
CallStep(c) ==
  \/ CacheGet(c) \/ LockGet(c) \/ LockSet(c) \/ ProbeRound(c) \/ CacheSet(c) \/ Challenge(c)
  \/ SyncCacheGet(c) \/ SyncLockGet(c) \/ SyncLockSet(c) \/ SyncCacheSet(c)

\* Every store operation eventually returns (with a value or with an error)
\* and every probe and relay eventually settles: a call that can take its next
\* step takes it.  Nothing is assumed about new calls or about time passing.
LiveSpec == Spec /\ \A c \in CallIds : WF_vars(CallStep(c) \/ StoreError(c))

\* ================================================================== claims
ChainRun == filter.kind = "chain"
SyncRun == filter.kind = "sync"
RaceRun == filter.kind = "race"
Done(c) == call[c].pc = "done"

\* the call read the result key and found an entry
ReadCachePresent(c) == call[c].cached # Unread /\ call[c].cached # Nil
\* the call read the result key as absent and the lock key as present
ReadLockOnly(c) == call[c].cached = Nil /\ call[c].lock # Unread /\ call[c].lock # Nil

\* the writes of the result entry among the store writes of a call
ResultWrites(c) == SelectSeq(call[c].sets, LAMBDA w : w.key = checkedNodesKey)

\* the input nodes, in input order, whose probe outcome is in the set `outs`
NodesWithOutcome(c, outs) ==
  LET idx == SelectSeq([i \in DOMAIN call[c].results |-> i],
                       LAMBDA i : call[c].results[i] \in outs)
  IN [k \in DOMAIN idx |-> call[c].given[idx[k]]]

\* C1: the list the chain filter returns is a sub-list of its input nodes: only
\* input nodes, each at most once, in the order of the input, on every path.
C1_ReturnIsSubList ==
  ChainRun => \A c \in CallIds :
    Done(c) => IsSubList(call[c].ret, call[c].given) /\ IsInjective(call[c].ret)

C1_Witness ==
  \E c \in CallIds :
    /\ ChainRun /\ Done(c) /\ ReadCachePresent(c) /\ ~call[c].round
    /\ Len(call[c].given) = 2 /\ call[c].ret = <<call[c].given[2]>>

\* C2: a call that finds a result entry returns exactly the input nodes whose
\* publicKey is in the cached list, issues no probe and writes nothing, also
\* when that list is empty.
C2_CachedListIsAuthoritative ==
  ChainRun => \A c \in CallIds :
    ReadCachePresent(c) =>
      /\ Done(c)
      /\ call[c].ret = SelectSeq(call[c].given,
                                 LAMBDA n : Includes(JSONparse(call[c].cached), publicKey(n)))
      /\ call[c].probed = <<>>
      /\ call[c].sets = <<>>

\* C3: a call that starts right after a call with the same nodes has returned
\* from its probing round, with no time passed, probes nothing and returns
\* what that call returned.
C3_SecondCallServedFromCache ==
  ChainRun => \A c \in CallIds :
    call[c].since # <<>> =>
      /\ call[c].probed = <<>>
      /\ Done(c) => call[c].ret = call[c].since[1]

\* C4: a call that reads the result key as absent and the lock key as present
\* returns all of its input nodes, none filtered, and does not raise unless the
\* store fails it (the chain
\* filter returns the input list itself; the sync filter returns the input
\* array, which it has sorted).
C4_LockFailOpen ==
  \A c \in CallIds :
    ReadLockOnly(c) =>
      /\ call[c].pc = "raised" => call[c].thrownAt \in StoreOps
      /\ Done(c) => /\ Len(call[c].ret) = Len(call[c].given)
                    /\ Range(call[c].ret) = Range(call[c].given)
                    /\ ChainRun => call[c].ret = call[c].given

C4_Witness ==
  \E c \in CallIds :
    /\ ChainRun /\ Done(c) /\ ReadLockOnly(c) /\ Len(call[c].given) = 2

C4_WitnessSync ==
  \E c \in CallIds :
    /\ SyncRun /\ Done(c) /\ ReadLockOnly(c) /\ Len(call[c].given) = 2

C4_WitnessEmpty ==
  \E c \in CallIds :
    /\ ChainRun /\ Done(c) /\ ReadLockOnly(c) /\ call[c].given = <<>>

\* C5 (as claimed): a probing round fires the challenge exactly when some but
\* not all of its nodes survive.
C5_ChallengeIffSomeButNotAll ==
  ChainRun => \A c \in CallIds :
    Done(c) /\ call[c].round =>
      (call[c].challenges # <<>>
         <=> (0 < Len(call[c].ret) /\ Len(call[c].ret) < Len(call[c].given)))

\* C5 (amended): a probing round fires the challenge exactly when fewer nodes
\* survive than were given, also when none survives; it does not fire it when
\* all nodes pass.
C5_ChallengeIffFewerSurvive ==
  ChainRun => \A c \in CallIds :
    /\ call[c].pc = "challenge" =>
         call[c].challenges = <<>> /\ Len(call[c].checkedNodes) < Len(call[c].given)
    /\ call[c].thrownAt = "performChallenge" => call[c].challenges # <<>>
    /\ Done(c) /\ call[c].round =>
         (call[c].challenges # <<>> <=> Len(call[c].ret) < Len(call[c].given))

C5_Witness ==
  \E c \in CallIds :
    /\ ChainRun /\ Done(c) /\ call[c].round
    /\ call[c].challenges # <<>> /\ call[c].ret = <<>> /\ Len(call[c].given) = 2

\* C6: a probing round in which a node fails sends the challenge exactly once,
\* with the payload of the call, and only after it has written the result
\* entry; a call that found a result entry, or found the lock with no result
\* entry, sends none.
C6_ChallengeOnceAfterWrite ==
  ChainRun => \A c \in CallIds :
    /\ Done(c) /\ call[c].round /\ Len(call[c].ret) < Len(call[c].given) =>
         call[c].challenges = <<call[c].data>>
    /\ call[c].challenges # <<>> => Len(ResultWrites(c)) = 1
    /\ ReadCachePresent(c) \/ ReadLockOnly(c) => call[c].challenges = <<>>

\* C7: a probing round writes the result entry exactly once; the value written
\* is the list of the public keys of the surviving nodes, and its expiry is 600
\* seconds when that list is not empty and 30 seconds when it is.
C7_WritesOfRound ==
  ChainRun => \A c \in CallIds :
    /\ call[c].round /\ (call[c].pc \in {"challenge", "done"}
                         \/ call[c].thrownAt = "performChallenge") =>
         Len(ResultWrites(c)) = 1
    /\ call[c].round /\ call[c].pc \in {"challenge", "done"} =>
         /\ JSONparse(ResultWrites(c)[1].value) = PublicKeys(call[c].checkedNodes)
         /\ ResultWrites(c)[1].ex = IF call[c].checkedNodes # <<>> THEN 600 ELSE 30
    /\ ~call[c].round => ResultWrites(c) = <<>>

C7_WriteStep ==
  \A c \in CallIds :
    ChainRun /\ call[c].pc = "cacheSet" /\ call'[c].pc \in {"challenge", "done"} =>
      /\ JSONparse(redis'[checkedNodesKey]) = PublicKeys(call[c].checkedNodes)
      /\ ttl'[checkedNodesKey] = IF call[c].checkedNodes # <<>> THEN 600 ELSE 30

C7_ResultEntryWritten == []C7_WritesOfRound /\ [][C7_WriteStep]_vars

C7_Witness ==
  \E c \in CallIds :
    /\ ChainRun /\ Done(c) /\ call[c].round /\ call[c].ret = <<>>
    /\ Len(call[c].given) = 2 /\ ttl[checkedNodesKey] = 30

C7_WitnessLong ==
  \E c \in CallIds :
    /\ ChainRun /\ Done(c) /\ call[c].round /\ Len(call[c].ret) = 2
    /\ ttl[checkedNodesKey] = 600

\* C8: a node whose probe failed with the max-relays cause in an earlier round
\* is in no list a later call returns.
C8_FlaggedNodeStaysOut ==
  ChainRun => \A c \in CallIds :
    Done(c) =>
      \A n \in flagged \ Range(call[c].removals) : n \notin Range(call[c].ret)

\* C9: in a probing round, removeNodeFromSession is called once for each node
\* whose probe failed with the max-relays cause, in input order, and for no
\* other node; such a node is not in the list returned, and its public key is
\* in the session's allowance entry.
C9_RemovalsOfRound ==
  ChainRun => \A c \in CallIds :
    call[c].round /\ call[c].pc \in {"cacheSet", "challenge", "done"} =>
      /\ call[c].removals = NodesWithOutcome(c, {"errMax", "rejMax"})
      /\ \A n \in Range(call[c].removals) :
           /\ n \notin Range(call[c].checkedNodes)
           /\ Includes(JSONparse(redis[SessionCacheKey]), publicKey(n))
      /\ Done(c) => Range(call[c].ret) \cap Range(call[c].removals) = {}

C9_AllowanceEntry ==
  ChainRun =>
    /\ IsInjective(JSONparse(redis[SessionCacheKey]))
    /\ Range(JSONparse(redis[SessionCacheKey])) = {publicKey(n) : n \in flagged}

C9_AllowanceUpdates == C9_RemovalsOfRound /\ C9_AllowanceEntry

C9_Witness ==
  \E c \in CallIds :
    /\ ChainRun /\ Done(c) /\ call[c].round
    /\ call[c].results = <<"errOther", "errMax">>
    /\ call[c].removals = <<call[c].given[2]>>

\* C10: whatever becomes of the challenge, the call that sent it returns the
\* surviving list it computed before.
C10_ChallengeNeverChangesReturn ==
  ChainRun => \A c \in CallIds :
    call[c].challenges # <<>> =>
      /\ call[c].pc # "raised"
      /\ Done(c) => call[c].ret = call[c].checkedNodes

\* C11: a probing round over n nodes records exactly n metrics, one for each
\* node's outcome, whatever the outcome is.
C11_OneMetricPerOutcome ==
  ChainRun => \A c \in CallIds :
    call[c].round /\ call[c].pc \in {"cacheSet", "challenge", "done"} =>
      /\ Len(call[c].metrics) = Len(call[c].given)
      /\ \A i \in DOMAIN call[c].metrics : call[c].metrics[i].serviceNode = call[c].given[i]

\* C17: the list a probing round leaves is the input list filtered, in input
\* order, by "the probe was fulfilled, its response is no error, and success is
\* true"; a node is kept or dropped by its own outcome alone.
C17_SurvivorsByOwnOutcome ==
  ChainRun => \A c \in CallIds :
    call[c].round /\ call[c].pc \in {"cacheSet", "challenge", "done"} =>
      /\ call[c].checkedNodes = NodesWithOutcome(c, {"pass"})
      /\ \A i \in DOMAIN call[c].given :
           call[c].given[i] \in Range(call[c].checkedNodes) <=> call[c].results[i] = "pass"
      /\ Done(c) => call[c].ret = call[c].checkedNodes

C17_Witness ==
  \E c \in CallIds :
    /\ ChainRun /\ Done(c) /\ call[c].round
    /\ call[c].results = <<"wrong", "pass">>
    /\ call[c].ret = <<call[c].given[2]>>

\* C14: a store operation that fails is not swallowed: the call is rejected
\* with that error and returns no list; when the failing operation is the read
\* of the result key or of the lock key, the call has probed nothing and
\* written nothing.
C14_StoreErrorPropagates ==
  \A c \in CallIds :
    call[c].thrownAt \in StoreOps =>
      /\ call[c].pc = "raised"
      /\ call[c].ret = <<>>
      /\ call[c].thrownAt \in StoreReads =>
           call[c].probed = <<>> /\ call[c].sets = <<>> /\ ~call[c].round

C14_Witness ==
  \E c \in CallIds :
    /\ ChainRun /\ call[c].pc = "raised" /\ call[c].thrownAt = "lockGet"
    /\ call[c].cached = Nil /\ Len(call[c].given) = 2

C14_WitnessSync ==
  \E c \in CallIds :
    /\ SyncRun /\ call[c].pc = "raised" /\ call[c].thrownAt = "syncCacheSet"
    /\ Len(call[c].given) = 2

C14_WitnessWrite ==
  \E c \in CallIds :
    /\ ChainRun /\ call[c].pc = "raised" /\ call[c].thrownAt = "cacheSet"
    /\ call[c].round /\ Len(call[c].probed) = 2

\* the writes of a lock entry among the store writes of a call
LockWrites(c) == SelectSeq(call[c].sets, LAMBDA w : w.key[1] = "lock-")

\* C18: only a call that read both the result key and the lock key as absent
\* starts a probing round, and its first store write, made before any probe, is
\* the lock entry (60 seconds for the chain filter, 10 for the sync filter); a
\* call that read the result key or the lock key as present writes no lock.
C18_RoundOnlyAfterOwnLock ==
  \A c \in CallIds :
    /\ ChainRun /\ Len(call[c].given) > 0
         /\ (call[c].pc \in {"probe", "cacheSet", "challenge"} \/ call[c].round) =>
           /\ call[c].cached = Nil /\ call[c].lock = Nil
           /\ call[c].sets # <<>>
           /\ call[c].sets[1] = [key |-> LockKeyOf(checkedNodesKey), value |-> <<"true">>,
                                 ex |-> 60]
    /\ SyncRun /\ (call[c].pc = "syncCacheSet" \/ Len(call[c].sets) > 1) =>
           /\ call[c].cached = Nil /\ call[c].lock = Nil
           /\ call[c].sets[1].key = LockKeyOf(SyncedNodesKeyOf(call[c].nodes))
           /\ call[c].sets[1].ex = 10
    /\ ReadCachePresent(c) \/ (call[c].lock # Unread /\ call[c].lock # Nil) =>
           LockWrites(c) = <<>>

C15_SyncEntryOfOwnNodes ==
  SyncRun => \A c \in CallIds :
    Done(c) /\ ReadCachePresent(c) =>
      Range(JSONparse(call[c].cached)) = Range(PublicKeys(call[c].given))

\* C16: a probing round of the chain filter probes every input node exactly
\* once, and whatever probes reject or return an error, the call classifies
\* every node, writes the result entry once and returns: it does not raise
\* (unless the store fails it).
C16_RoundSettlesAll ==
  ChainRun => \A c \in CallIds :
    call[c].round /\ call[c].thrownAt \notin StoreOps =>
      /\ call[c].probed = call[c].given
      /\ call[c].pc = "cacheSet" => Len(call[c].results) = Len(call[c].given)
      /\ call[c].pc # "cacheSet" => Len(ResultWrites(c)) = 1
      /\ call[c].pc # "raised"

\* C16 without the last line: the round itself settles every probe
C16_RoundSettlesAllButMayRaise ==
  ChainRun => \A c \in CallIds :
    call[c].round /\ call[c].thrownAt \notin StoreOps =>
      /\ call[c].probed = call[c].given
      /\ call[c].pc = "cacheSet" => Len(call[c].results) = Len(call[c].given)
      /\ call[c].pc # "cacheSet" => Len(ResultWrites(c)) = 1

\* a probing round of call c is in flight: the call is past cacheNodes and has
\* not yet written the result entry
InFlight(c) == call[c].pc \in {"probe", "cacheSet"}

\* C19: while a probing round for the key is in flight, another call starts a
\* round of its own only after reading the lock key as absent (the other call's
\* lock write was still to come, or its lock entry had expired): of two rounds
\* in flight side by side, both calls have read the lock key and found it
\* absent.
C19_RoundsSideBySideOnlyByLockRace ==
  RaceRun => \A c, d \in CallIds :
    c # d /\ InFlight(c) /\ InFlight(d) => call[c].lock = Nil /\ call[d].lock = Nil

\* C19 for the calls that found no result entry
C19_RoundsSideBySideOnMiss ==
  RaceRun => \A c, d \in CallIds :
    c # d /\ InFlight(c) /\ InFlight(d) /\ ~ReadCachePresent(c) /\ ~ReadCachePresent(d) =>
      call[c].lock = Nil /\ call[d].lock = Nil

\* both calls have read the lock key as absent and gone on to probe, and the
\* store has failed neither
BothProbe(c, d) ==
  /\ c # d
  /\ call[c].round /\ call[c].lock = Nil /\ call[c].thrownAt \notin StoreOps
  /\ call[d].round /\ call[d].lock = Nil /\ call[d].thrownAt \notin StoreOps

\* once both calls have returned: the result entry, while it lasts, is the
\* list one of the two rounds wrote, and rounds with the same probe outcomes
\* wrote the same list
SameFreshResults(c, d) ==
  Done(c) /\ Done(d) =>
    /\ Len(ResultWrites(c)) = 1 /\ Len(ResultWrites(d)) = 1
    /\ redis[checkedNodesKey] # Nil =>
         redis[checkedNodesKey] \in {ResultWrites(c)[1].value, ResultWrites(d)[1].value}
    /\ call[c].results = call[d].results =>
         ResultWrites(c)[1].value = ResultWrites(d)[1].value

\* C20: when two calls for the key have both read the lock key as absent, both
\* complete their probing round and return (neither raises); afterwards the
\* result entry is the list written by one of them, and the two wrote the same
\* list when every node gave the same outcome in both rounds.
C20_BothRoundsReturn ==
  RaceRun => \A c, d \in CallIds :
    BothProbe(c, d) =>
      /\ call[c].pc # "raised" /\ call[d].pc # "raised"
      /\ SameFreshResults(c, d)

\* C20 without "neither raises"
C20_LastWriterWins ==
  RaceRun => \A c, d \in CallIds : BothProbe(c, d) => SameFreshResults(c, d)

\* the result key of the run's filter
ResultKey == IF SyncRun THEN SyncedNodesKeyOf(filter.nodes) ELSE checkedNodesKey

\* a stored value is a list of public keys of nodes of `nodes`, none repeated
KeysOfNodes(value, nodes) ==
  /\ IsInjective(JSONparse(value))
  /\ Range(JSONparse(value)) \subseteq Range(PublicKeys(nodes))

\* every write of the result entry a call has made holds public keys of the
\* call's own input nodes, none repeated; so does the entry in the store, for
\* the nodes of some input
C21_WritesOfOwnNodes ==
  /\ \A c \in CallIds : \A i \in DOMAIN call[c].sets :
       call[c].sets[i].key = ResultKey =>
         KeysOfNodes(call[c].sets[i].value, call[c].given)
  /\ redis[ResultKey] # Nil => \E l \in NodeLists : KeysOfNodes(redis[ResultKey], l)

\* a step that puts a value under the result key is the write of a call, and
\* the value holds public keys of that call's input nodes, none repeated
C21_EntryStep ==
  redis'[ResultKey] # redis[ResultKey] /\ redis'[ResultKey] # Nil =>
    \E c \in CallIds :
      /\ Len(call'[c].sets) = Len(call[c].sets) + 1
      /\ call'[c].sets[Len(call'[c].sets)].key = ResultKey
      /\ call'[c].sets[Len(call'[c].sets)].value = redis'[ResultKey]
      /\ KeysOfNodes(redis'[ResultKey], call'[c].given)

\* C21: in every reachable store state the value of a chain-check or
\* sync-check result entry is a list of public keys, none repeated, that is a
\* subset of the public keys of the input nodes of the call that wrote it.
C21_EntryIsSubsetOfWriterInput == []C21_WritesOfOwnNodes /\ [][C21_EntryStep]_vars

C21_Witness ==
  \E c \in CallIds :
    /\ Done(c) /\ call[c].given = <<1, 2>>
    /\ redis[ResultKey] = JSONstringify(<<publicKey(2)>>)
    /\ Len(call[c].sets) > 0 /\ call[c].sets[Len(call[c].sets)].value = redis[ResultKey]

C21_WitnessSync ==
  \E c \in CallIds :
    /\ SyncRun /\ Done(c) /\ Len(call[c].given) = 2
    /\ Len(call[c].sets) = 2 /\ call[c].sets[2].value = redis[ResultKey]

\* the result key and the lock key of the run's filter
EntryKeys == {ResultKey, LockKeyOf(ResultKey)}

\* the seconds the code gives a result entry, and a lock entry
ResultSeconds == IF SyncRun THEN {SyncTTL} ELSE {ChainTTL, ChainEmptyTTL}
LockSeconds == IF SyncRun THEN {SyncLockTTL} ELSE {LockTTL}

\* C22: every result entry and every lock entry is written with an expiry
\* (result: 600, 30 or 300 seconds; lock: 60 or 10), and every such entry in
\* the store has between 1 and 600 seconds left.
C22_EntriesExpire ==
  /\ \A k \in EntryKeys : redis[k] # Nil => ttl[k] \in 1..ChainTTL
  /\ \A c \in CallIds : \A i \in DOMAIN call[c].sets :
       /\ call[c].sets[i].key \in EntryKeys
       /\ call[c].sets[i].key = ResultKey => call[c].sets[i].ex \in ResultSeconds
       /\ call[c].sets[i].key = LockKeyOf(ResultKey) => call[c].sets[i].ex \in LockSeconds

C22_Witness ==
  /\ ChainRun
  /\ redis[ResultKey] # Nil /\ ttl[ResultKey] = ChainTTL
  /\ redis[LockKeyOf(ResultKey)] # Nil /\ ttl[LockKeyOf(ResultKey)] = LockTTL

C22_WitnessSync ==
  /\ SyncRun
  /\ redis[ResultKey] # Nil /\ ttl[ResultKey] = SyncTTL - SyncLockTTL
  /\ redis[LockKeyOf(ResultKey)] = Nil

\* a sync filter call that found neither the result key nor the lock key
SyncFresh(c) == SyncRun /\ call[c].cached = Nil /\ call[c].lock = Nil

\* C23: a sync filter call that finds both the result key and the lock key
\* absent returns every input node, writes (after the lock) a result entry
\* holding the public keys of all its input nodes for 300 seconds, and sends
\* no probe and no challenge.
C23_SyncPassThrough ==
  \A c \in CallIds :
    SyncFresh(c) =>
      /\ call[c].probed = <<>> /\ call[c].challenges = <<>>
      /\ Done(c) =>
           /\ Len(call[c].ret) = Len(call[c].given)
           /\ Range(call[c].ret) = Range(call[c].given)
           /\ Len(call[c].sets) = 2
           /\ call[c].sets[2].key = ResultKey
           /\ call[c].sets[2].ex = SyncTTL
           /\ Len(JSONparse(call[c].sets[2].value)) = Len(call[c].given)
           /\ Range(JSONparse(call[c].sets[2].value)) = Range(PublicKeys(call[c].given))

C23_Witness ==
  \E c \in CallIds :
    /\ SyncFresh(c) /\ Done(c) /\ Len(call[c].given) = 2
    /\ redis[ResultKey] = call[c].sets[2].value /\ ttl[ResultKey] = SyncTTL

\* C24: on every path the sync filter returns its nodes in the relative order
\* in which the caller gave them, and the caller's node array is in the same
\* order after the call as before it (call.nodes is that array, call.given
\* what it held when the call was made).
C24_SyncKeepsOrder ==
  SyncRun => \A c \in CallIds :
    Done(c) => IsSubList(call[c].ret, call[c].given) /\ call[c].nodes = call[c].given

\* what does hold: the returned list is in the order of the sorted array
C24_SyncReturnsSortedOrder ==
  SyncRun => \A c \in CallIds :
    Done(c) =>
      /\ call[c].nodes = SortByPublicKey(call[c].given)
      /\ IsSubList(call[c].ret, call[c].nodes)

\* the log entries of call c about node n
LogsAbout(c, n) == SelectSeq(call[c].logs, LAMBDA l : l.serviceNode = n)

\* C25: a node whose probe fulfils with an Error response is left out of the
\* surviving list as a node whose probe was rejected is, and what is logged
\* about it carries a message that no log about a rejected probe of the round
\* carries.
C25_ErrorResponseLoggedApart ==
  \A c \in CallIds :
    call[c].pc = "cacheSet" =>
      \A i \in DOMAIN call[c].results :
        call[c].results[i] \in {"errOther", "errMax"} =>
          /\ call[c].nodes[i] \notin Range(call[c].checkedNodes)
          /\ LogsAbout(c, call[c].nodes[i]) # <<>>
          /\ \A j \in DOMAIN call[c].results :
               Rejected(call[c].results[j]) =>
                 \A k \in DOMAIN LogsAbout(c, call[c].nodes[i]),
                    m \in DOMAIN LogsAbout(c, call[c].nodes[j]) :
                   LogsAbout(c, call[c].nodes[i])[k].message #
                     LogsAbout(c, call[c].nodes[j])[m].message

\* what does hold: both kinds of failure leave the node out and are logged,
\* once, at level error
C25_FailuresLeftOutAndLogged ==
  \A c \in CallIds :
    call[c].pc = "cacheSet" =>
      \A i \in DOMAIN call[c].results :
        Failed(call[c].results[i]) =>
          /\ call[c].nodes[i] \notin Range(call[c].checkedNodes)
          /\ Len(LogsAbout(c, call[c].nodes[i])) = 1
          /\ LogsAbout(c, call[c].nodes[i])[1].level = "error"

\* key k has expired in this step
Expires(k) == redis[k] # Nil /\ redis'[k] = Nil /\ ttl[k] > 0 /\ ttl'[k] = 0

\* a call has written key k in this step (a redis.set on record)
Writes(k) ==
  \E c \in CallIds :
    /\ Len(call'[c].sets) = Len(call[c].sets) + 1
    /\ call'[c].sets[Len(call'[c].sets)].key = k
    /\ call'[c].sets[Len(call'[c].sets)].value = redis'[k]

C26_Step ==
  \A k \in Keys :
    /\ redis[k] # Nil /\ redis'[k] = Nil => Expires(k)
    /\ k \in EntryKeys /\ redis'[k] # redis[k] => Expires(k) \/ Writes(k)

\* C26: no step of the chain filter or the sync filter deletes a store key. A
\* key that is present goes only by expiring; a result entry or a lock entry
\* changes only by a write of a call or by expiring, so the lock a round wrote
\* is there after the round's result write and return until its time is up.
C26_NoKeyDeleted == [][C26_Step]_vars

C26_Witness ==
  \E c \in CallIds :
    /\ ChainRun /\ Done(c) /\ LockWrites(c) # <<>> /\ Len(ResultWrites(c)) = 1
    /\ redis[LockKeyOf(ResultKey)] # Nil /\ ttl[LockKeyOf(ResultKey)] = LockTTL
    /\ redis[ResultKey] # Nil

C26_WitnessExpired ==
  /\ ChainRun
  /\ redis[ResultKey] = Nil /\ redis[LockKeyOf(ResultKey)] # Nil
  /\ ttl[LockKeyOf(ResultKey)] = LockTTL - ChainEmptyTTL

\* call c has been made and has neither returned nor raised
InProgress(c) == call[c].pc \notin {"idle", "done", "raised"}

\* C27: provided every store operation returns and every probe and relay
\* settles, every call of the chain filter and of the sync filter returns a
\* list or raises; and a call in progress never waits for a lock or for another
\* call: whatever the store holds, its next step can be taken.
C27_EveryCallEnds ==
  /\ [](\A c \in CallIds : InProgress(c) => ENABLED CallStep(c))
  /\ \A c \in CallIds : InProgress(c) ~> Finished(c)

C27_Witness ==
  \E c, d \in CallIds :
    /\ c # d /\ Done(c) /\ ReadLockOnly(c) /\ call[c].ret # <<>>
    /\ call[d].pc \in {"probe", "cacheSet", "syncCacheSet"}

\* the call has issued no probe, fired no challenge, recorded no metric and
\* written nothing to the store
TouchesNothing(c) ==
  /\ call[c].probed = <<>>
  /\ call[c].challenges = <<>>
  /\ call[c].metrics = <<>>
  /\ call[c].sets = <<>>

\* C28 (as claimed): a call that reads the result key as absent and the lock
\* key as present issues no probe, fires no challenge, records no metric and
\* writes nothing to the store, whatever its input list, the empty list
\* included.
C28_LockPathTouchesNothing ==
  \A c \in CallIds : ReadLockOnly(c) => TouchesNothing(c)

\* C28 (what holds): the same for the sync filter with any input and for the
\* chain filter with a non-empty input; the chain filter with the empty input
\* goes on to a round over no node, which issues no probe, fires no challenge
\* and records no metric, and writes the empty list under the result key.
C28_LockPathOfNonEmptyInputTouchesNothing ==
  \A c \in CallIds :
    ReadLockOnly(c) =>
      /\ SyncRun \/ call[c].given # <<>> => TouchesNothing(c)
      /\ call[c].probed = <<>> /\ call[c].challenges = <<>> /\ call[c].metrics = <<>>
      /\ \A i \in 1..Len(call[c].sets) :
           /\ call[c].sets[i].key = checkedNodesKey
           /\ call[c].sets[i].value = JSONstringify(<<>>)
           /\ call[c].sets[i].ex = ChainEmptyTTL

\* ------------------------------------------------------------ ClickHouseLib
ClickHouseRun == filter.kind = "clickhouse"
\* the items passed to insert() so far: item i is the data of the i-th call
Items == DOMAIN lib.inserts
\* the requests started so far whose body holds the item
RequestsWith(item) == {r \in DOMAIN lib.requests : item \in Range(lib.requests[r].body)}
\* the arrays a later request can still send: those of the map and those of
\* the jobs that wait in the queue
HeldArrays ==
  {lib.itemsMap[i].items : i \in DOMAIN lib.itemsMap} \cup
  {lib.queue[i].items : i \in DOMAIN lib.queue}
\* the item still waits to be sent
Held(item) == \E a \in HeldArrays : item \in Range(lib.arrays[a])
NoRequestFailed == \A r \in DOMAIN lib.requests : lib.requests[r].state # "failed"

\* C29 (as claimed): while every request succeeds no item is lost: every item
\* passed to insert(query, data) has been included in a request for that
\* query, or is still held by the map or by a waiting job, so that a later
\* request includes it; an item added while a request for its query is queued
\* or in flight is not discarded when that request completes.
C29_NoItemDiscarded ==
  ClickHouseRun /\ NoRequestFailed =>
    \A item \in Items :
      \/ \E r \in RequestsWith(item) : lib.requests[r].query = lib.inserts[item]
      \/ Held(item)

\* C29 (what holds): an item is sent only under the query it was inserted
\* for, and an item is discarded only when a request for its query that does
\* not include it has completed.
C29_DiscardedOnlyByRequestOfItsQuery ==
  ClickHouseRun /\ NoRequestFailed =>
    \A item \in Items :
      /\ \A r \in RequestsWith(item) : lib.requests[r].query = lib.inserts[item]
      /\ RequestsWith(item) = {} /\ ~Held(item) =>
           \E r \in DOMAIN lib.requests :
             /\ lib.requests[r].state = "done"
             /\ lib.requests[r].query = lib.inserts[item]
             /\ item \notin Range(lib.requests[r].body)

\* C30 (as claimed): no item passed to insert() is included in more than one
\* insert request.
C30_NoItemSentTwice ==
  ClickHouseRun => \A item \in Items : Cardinality(RequestsWith(item)) <= 1

\* C30 (what holds): an item is included twice only in requests for the same
\* array, the later of which was added to the queue before the earlier one
\* completed, or after the earlier one failed.
C30_SentTwiceOnlyFromOneArray ==
  ClickHouseRun =>
    \A item \in Items : \A r1, r2 \in RequestsWith(item) :
      lib.requests[r1].items = lib.requests[r2].items

\* the jobs added to the queue so far: those started and those that wait
JobsAdded ==
  {[force |-> lib.requests[r].force, length |-> lib.requests[r].length] :
     r \in DOMAIN lib.requests} \cup
  {[force |-> lib.queue[i].force, length |-> lib.queue[i].length] : i \in DOMAIN lib.queue}

\* C31: at every moment at most `concurrency` insert requests are in flight
\* (a job waits in the queue only while `concurrency` requests are in flight);
\* insert() adds a request for a query to the queue only when the array of
\* that query holds batchSize items or more, so that a request with fewer
\* items than batchSize comes from the forced flush of the interval.
C31_ConcurrencyAndBatchesBounded ==
  ClickHouseRun =>
    /\ Cardinality(RequestsInFlight(lib)) <= lib.concurrency
    /\ lib.queue # <<>> => Cardinality(RequestsInFlight(lib)) = lib.concurrency
    /\ \A job \in JobsAdded : ~job.force => job.length >= lib.batchSize
    /\ \A r \in DOMAIN lib.requests :
         Len(lib.requests[r].body) < lib.batchSize => lib.requests[r].force

\* reached: `concurrency` requests are in flight while a job added by insert()
\* waits, and the forced flush has sent a batch smaller than batchSize
C31_Witness ==
  /\ ClickHouseRun
  /\ Cardinality(RequestsInFlight(lib)) = lib.concurrency
  /\ \E i \in DOMAIN lib.queue : ~lib.queue[i].force
  /\ \E r \in DOMAIN lib.requests :
       lib.requests[r].force /\ Len(lib.requests[r].body) < lib.batchSize

\* reached with two requests in flight at once, one of them added by insert()
C31_WitnessTwoInFlight ==
  /\ ClickHouseRun
  /\ lib.concurrency = 2
  /\ Cardinality(RequestsInFlight(lib)) = 2
  /\ \E r \in RequestsInFlight(lib) : ~lib.requests[r].force

\* C31 (does not hold, because the array of a request stays in the map until
\* the request completes): a request added by insert() holds batchSize items
\* or more that no earlier request has included.
C31_BatchesOfUnsentItems ==
  ClickHouseRun =>
    \A r \in DOMAIN lib.requests :
      ~lib.requests[r].force =>
        Cardinality({item \in Range(lib.requests[r].body) :
                       \A e \in RequestsWith(item) : e >= r}) >= lib.batchSize
====
